---- MODULE Spec2Model ----
(***************************************************************************)
(* Model of the multi-period revenue puller                                *)
(* (src/revenue_new_python_file.py): the period chunker, the batched fetch *)
(* with retries, the metadata merge and region filter, the monthly         *)
(* aggregation, the reference / decommissioned categorisation and the      *)
(* assembled output matrices.                                              *)
(***************************************************************************)
EXTENDS Integers, Sequences, FiniteSets, TLC

VARIABLES
    \* ---- module-level configuration (lines 15-68) and the environment
    start_month, start_year, end_month, end_year,
    REGION_FILTER,          \* the region allow-list, as a set
    nem_file,               \* the reference spreadsheet: found or not, and its rows
    \* ---- calculate_date_periods
    cpc,                    \* position inside calculate_date_periods
    current_start,          \* its loop variable
    periods,                \* the list it builds / main()'s periods
    \* ---- main()
    pc,                     \* position inside main()
    duid_lookup,
    facility_codes,
    all_records,
    all_periods_metadata,
    period_num,
    \* ---- fetch_data_for_period (locals of the running call)
    f_records,              \* its local all_records
    all_metadata,
    i,                      \* batch offset of the for loop (0, 20, 40, ...)
    attempt,                \* attempt index of the retry loop (0-based)
    batch_success,
    successful_batches,
    failed_batches,
    batch_log,              \* statuses session.get met for the batch started last
    response,               \* what the last session.get of that batch met
    batch_start,            \* record count and batch counters when that batch started
    waited,                 \* seconds slept since the last session.get call
    failed_log,             \* the "Batch N failed after all retries" lines printed:
                            \* <<period_num, batch offset>> pairs
    faults,                 \* failed or malformed responses the API produced so far
    \* ---- categorize_duids / create_output_files
    reference_duids,
    decommissioned_duids,
    latest_period,
    files                   \* the matrices written, by file name

cfgVars == <<start_month, start_year, end_month, end_year, REGION_FILTER, nem_file>>
chunkVars == <<cpc, current_start>>
mainVars == <<pc, duid_lookup, facility_codes, all_records, all_periods_metadata,
              period_num>>
fetchVars == <<f_records, all_metadata, i, attempt, batch_success,
               successful_batches, failed_batches, batch_log, response,
               batch_start, waited, failed_log, faults>>
outVars == <<reference_duids, decommissioned_duids, latest_period, files>>
vars == <<cfgVars, chunkVars, periods, mainVars, fetchVars, outVars>>

-----------------------------------------------------------------------------
(* Bounds of the model *)

\* number of calendar years the chunker's inputs are drawn from
YearSpan == 4
\* facilities returned by fetch_all_facility_codes (21 gives two batches)
NumFacilities == 21
\* failed or malformed API responses the environment may produce in one run
MaxFaults == 3

Years == 2023..(2023 + YearSpan - 1)
Months == 1..12

-----------------------------------------------------------------------------
(* Program constants *)

MAX_RETRIES == 3
RETRY_DELAY == 5
BATCH_DELAY == 1
BATCH_SIZE == 20
status_forcelist == {429, 500, 502, 503, 504}
NA == "N/A"

-----------------------------------------------------------------------------
(* Calendar arithmetic: datetime, timedelta, relativedelta.                *)
(* A date is <<year, month, day>>.                                         *)

IsLeap(y) == (y % 4 = 0 /\ y % 100 # 0) \/ y % 400 = 0

DaysInMonth(y, m) ==
    IF m = 2 THEN (IF IsLeap(y) THEN 29 ELSE 28)
    ELSE IF m \in {4, 6, 9, 11} THEN 30 ELSE 31

\* days in the months of year y before month m
DaysBeforeMonth(y, m) ==
    LET cum == <<0, 31, 59, 90, 120, 151, 181, 212, 243, 273, 304, 334>>
    IN cum[m] + (IF m > 2 /\ IsLeap(y) THEN 1 ELSE 0)

\* proleptic Gregorian ordinal (datetime.toordinal)
Ordinal(dt) ==
    LET y == dt[1] - 1
    IN y * 365 + (y \div 4) - (y \div 100) + (y \div 400)
       + DaysBeforeMonth(dt[1], dt[2]) + dt[3]

\* (a - b).days
DaysBetween(a, b) == Ordinal(a) - Ordinal(b)

\* d + timedelta(days=1)
NextDay(dt) ==
    IF dt[3] < DaysInMonth(dt[1], dt[2]) THEN <<dt[1], dt[2], dt[3] + 1>>
    ELSE IF dt[2] < 12 THEN <<dt[1], dt[2] + 1, 1>>
    ELSE <<dt[1] + 1, 1, 1>>

\* d - timedelta(days=1)
PrevDay(dt) ==
    IF dt[3] > 1 THEN <<dt[1], dt[2], dt[3] - 1>>
    ELSE IF dt[2] > 1 THEN <<dt[1], dt[2] - 1, DaysInMonth(dt[1], dt[2] - 1)>>
    ELSE <<dt[1] - 1, 12, 31>>

\* d + relativedelta(years=1): same month and day, the day clipped to the month
PlusOneYear(dt) ==
    LET dim == DaysInMonth(dt[1] + 1, dt[2])
    IN <<dt[1] + 1, dt[2], IF dt[3] > dim THEN dim ELSE dt[3]>>

DateLT(a, b) == Ordinal(a) < Ordinal(b)
DateGT(a, b) == Ordinal(a) > Ordinal(b)

-----------------------------------------------------------------------------
(* calculate_date_periods, lines 95-148 *)

\* lines 101, 115
StartDateOf(sm, sy) == <<sy, sm, 1>>

\* lines 103-112, 116: the last day of the end month
EndDateOf(em, ey) ==
    LET next_month == IF em = 12 THEN 1 ELSE em + 1
        next_year == IF em = 12 THEN ey + 1 ELSE ey
        last_day == PrevDay(<<next_year, next_month, 1>>)[3]
    IN <<ey, em, last_day>>

\* line 119
TotalDays(sm, sy, em, ey) == DaysBetween(EndDateOf(em, ey), StartDateOf(sm, sy))

\* ChunkPeriod without the "- timedelta(days=1)" of line 133
ChunkPeriod_fullyear(cs, end_date) ==
    LET current_end == PlusOneYear(cs)
    IN <<cs, IF DateGT(current_end, end_date) THEN end_date ELSE current_end>>

\* lines 133-139: the period one loop iteration appends
ChunkPeriod(cs, end_date) ==
    LET current_end == PrevDay(PlusOneYear(cs))
    IN <<cs, IF DateGT(current_end, end_date) THEN end_date ELSE current_end>>

\* NextStart without the "+ timedelta(days=1)" of line 142
NextStart_overlap(current_end) == current_end

\* line 142: the next period starts the day after the current one ends
NextStart(current_end) == NextDay(current_end)

RECURSIVE ChunkLoop(_, _, _)
\* lines 131-142: the while loop
ChunkLoop(cs, end_date, acc) ==
    IF DateLT(cs, end_date)
    THEN LET p == ChunkPeriod(cs, end_date)
         IN ChunkLoop(NextStart(p[2]), end_date, Append(acc, p))
    ELSE acc

calculate_date_periods(sm, sy, em, ey) ==
    IF TotalDays(sm, sy, em, ey) <= 365
    THEN << <<StartDateOf(sm, sy), EndDateOf(em, ey)>> >>
    ELSE ChunkLoop(StartDateOf(sm, sy), EndDateOf(em, ey), <<>>)

-----------------------------------------------------------------------------
(* The environment: the reference spreadsheet and the Metric API.          *)

DUIDs == {"A", "B"}
None == "None"

\* the facility each unit belongs to: A sits in the first batch of 20 facility
\* codes, B in the last facility of the list
FacilityOf(d) == IF d = "A" THEN 1 ELSE NumFacilities

\* what the API reports for a unit's facility (network_region, fueltech_id)
ApiRegion(d) == IF d = "A" THEN "NSW1" ELSE "UNKNOWN"
ApiFueltech(d) == IF d = "A" THEN "coal_black" ELSE "solar_utility"

\* a row of the reference spreadsheet, as row.get(...) reads it at lines 165-174
RefRow(d, region) ==
    [DUID |-> d, Region |-> region, Facility |-> "RefStation", Owner |-> "RefOwner",
     Number_of_Units |-> "2", Nameplate_Capacity_MW |-> "660",
     Storage_Capacity_MWh |-> NA, Expected_Closure_Year |-> "2035",
     Fueltech |-> "Ref fuel"]

\* the spreadsheets a run may find on disk: none (or an unreadable one), one
\* that places both units in NSW1, one whose Region is unresolved for A and
\* VIC1 for B, one that knows B only
FileMissing == [found |-> FALSE, rows |-> <<>>]
FileBoth == [found |-> TRUE, rows |-> << RefRow("A", "NSW1"), RefRow("B", "NSW1") >>]
FileUnresolved == [found |-> TRUE, rows |-> << RefRow("A", NA), RefRow("B", "VIC1") >>]
FileOnlyB == [found |-> TRUE, rows |-> << RefRow("B", "NSW1") >>]
RefFiles == { FileMissing, FileBoth, FileUnresolved, FileOnlyB }

\* the requested ranges <<start_month, start_year, end_month, end_year>> of a run:
\* one, two and three periods
OnePeriod == <<1, 2024, 3, 2024>>
TwoPeriods == <<7, 2023, 5, 2025>>
ThreePeriods == <<1, 2023, 6, 2025>>

RegionFilters == { {}, {"NSW1"} }

\* the runs explored: <<range, region filter, spreadsheet>>
Configs ==
    ({OnePeriod, TwoPeriods} \X RegionFilters \X RefFiles)
    \cup ({ThreePeriods} \X {{"NSW1"}} \X {FileBoth, FileOnlyB})

\* the measurements the market holds for unit d in the window starting at start:
\* <<timestamp, value>> pairs, the timestamp with its time-of-day suffix,
\* the value in AUD or None (<<>>)
Measurements(d, start) ==
    LET t1 == start \o <<"T00:00:00+10:00">>
        t2 == NextDay(start) \o <<"T00:00:00+10:00">>
    IN IF d = "A"
       THEN << <<t1, <<2000000>> >>, <<t2, <<3000000>> >> >>
       ELSE << <<t1, <<5000000>> >>, <<t2, <<>> >> >>

\* one result of a facility block: a well-formed one carries "columns"
GoodResult(d, start) ==
    [has_columns |-> TRUE, columns |-> [unit_code |-> d], name |-> d,
     data |-> Measurements(d, start)]
BadResult ==
    [has_columns |-> FALSE, columns |-> [unit_code |-> NA], name |-> NA, data |-> <<>>]

FacilityBlock(d, result) ==
    [facility_code |-> FacilityOf(d), network_region |-> ApiRegion(d),
     fueltech_id |-> ApiFueltech(d), results |-> <<result>>]

\* the units whose facility is in the batch facility_codes[i : i + BATCH_SIZE]
UnitsInBatch(codes, off) ==
    { d \in DUIDs : \E k \in (off + 1)..(off + BATCH_SIZE) :
                       k <= Len(codes) /\ codes[k] = FacilityOf(d) }

RECURSIVE SetToSeq(_)
SetToSeq(S) == IF S = {} THEN <<>>
               ELSE LET x == CHOOSE y \in S : \A z \in S : FacilityOf(y) <= FacilityOf(z)
                    IN <<x>> \o SetToSeq(S \ {x})

\* status 200 payloads: the reporting units of the batch, each with its data
GoodPayloads(codes, off, start) ==
    { [b \in 1..Cardinality(S) |->
          FacilityBlock(SetToSeq(S)[b], GoodResult(SetToSeq(S)[b], start))] :
      S \in SUBSET UnitsInBatch(codes, off) }

\* status 200 payloads whose last block holds a result without "columns"
MalformedPayloads(codes, off, start) ==
    { Append(p, FacilityBlock("A", BadResult)) :
      p \in { q \in GoodPayloads(codes, off, start) :
                Len(q) = Cardinality(UnitsInBatch(codes, off)) } }

\* what session.get meets that is not a well-formed status 200 answer: a
\* malformed payload, a status outside the force list (404), statuses of the
\* force list (429 rate limit, 500 server error)
FaultResponses(codes, off, start) ==
    { [status |-> 200, data |-> p] : p \in MalformedPayloads(codes, off, start) }
    \cup { [status |-> s, data |-> <<>>] : s \in {404, 429, 500} }

OkResponses(codes, off, start) ==
    { [status |-> 200, data |-> p] : p \in GoodPayloads(codes, off, start) }

\* lines 78-88, 281: the mounted Retry adapter turns a status of the force list
\* that persists through its own retries into an exception (RetryError); any
\* other status is returned as the response
SessionGetRaises(resp) == resp.status \in status_forcelist

-----------------------------------------------------------------------------
(* load_nem_reference_data, lines 151-185 *)

RECURSIVE LookupOfRows(_, _)
\* lines 163-175: later rows of a DUID replace earlier ones
LookupOfRows(rows, acc) ==
    IF rows = <<>> THEN acc
    ELSE LET row == Head(rows)
             entry == [Region |-> row.Region, Facility |-> row.Facility,
                       Owner |-> row.Owner,
                       Number_of_Units |-> row.Number_of_Units,
                       Nameplate_Capacity_MW |-> row.Nameplate_Capacity_MW,
                       Storage_Capacity_MWh |-> row.Storage_Capacity_MWh,
                       Expected_Closure_Year |-> row.Expected_Closure_Year,
                       Fueltech |-> row.Fueltech]
         IN LookupOfRows(Tail(rows), (row.DUID :> entry) @@ acc)

\* the empty dict {}
EmptyDict == [x \in {} |-> x]

load_nem_reference_data(file) ==
    IF file.found THEN LookupOfRows(file.rows, EmptyDict) ELSE EmptyDict

-----------------------------------------------------------------------------
(* should_include_duid, lines 216-231 *)

should_include_duid(duid, metadata, lookup, region_filter) ==
    IF region_filter = {} THEN TRUE
    ELSE LET region0 == IF duid \in DOMAIN lookup THEN lookup[duid].Region ELSE None
             region == IF region0 = NA /\ duid \in DOMAIN metadata
                       THEN metadata[duid].Region ELSE region0
         IN region \in region_filter

-----------------------------------------------------------------------------
(* fetch_data_for_period: the processing of one status 200 payload,        *)
(* lines 284-347                                                           *)

\* MergedMetadata with the API-reported Region kept for a unit of the lookup
MergedMetadata_apiwins(duid, name, facility_code, facility_region, facility_fueltech, lookup) ==
    IF duid \in DOMAIN lookup
    THEN LET nem_data == lookup[duid]
         IN [DUID |-> duid, Name |-> name,
             Facility |-> nem_data.Facility,
             Region |-> facility_region,
             Fueltech |-> nem_data.Fueltech,
             Owner |-> nem_data.Owner,
             Number_of_Units |-> nem_data.Number_of_Units,
             Nameplate_Capacity_MW |-> nem_data.Nameplate_Capacity_MW,
             Storage_Capacity_MWh |-> nem_data.Storage_Capacity_MWh,
             Expected_Closure_Year |-> nem_data.Expected_Closure_Year]
    ELSE [DUID |-> duid, Name |-> name,
          Facility |-> facility_code,
          Region |-> facility_region,
          Fueltech |-> facility_fueltech,
          Owner |-> NA, Number_of_Units |-> NA, Nameplate_Capacity_MW |-> NA,
          Storage_Capacity_MWh |-> NA, Expected_Closure_Year |-> NA]

\* lines 246-248: strftime("%Y-%m-%dT00:00:00"), the first instant of the day
DATE_START(start_date) == start_date \o <<"T00:00:00">>
DATE_END(end_date) == end_date \o <<"T00:00:00">>

\* lines 301-333: the metadata stored for a unit
MergedMetadata(duid, name, facility_code, facility_region, facility_fueltech, lookup) ==
    IF duid \in DOMAIN lookup
    THEN LET nem_data == lookup[duid]
         IN [DUID |-> duid, Name |-> name,
             Facility |-> nem_data.Facility,
             Region |-> nem_data.Region,
             Fueltech |-> nem_data.Fueltech,
             Owner |-> nem_data.Owner,
             Number_of_Units |-> nem_data.Number_of_Units,
             Nameplate_Capacity_MW |-> nem_data.Nameplate_Capacity_MW,
             Storage_Capacity_MWh |-> nem_data.Storage_Capacity_MWh,
             Expected_Closure_Year |-> nem_data.Expected_Closure_Year]
    ELSE [DUID |-> duid, Name |-> name,
          Facility |-> facility_code,
          Region |-> facility_region,
          Fueltech |-> facility_fueltech,
          Owner |-> NA, Number_of_Units |-> NA, Nameplate_Capacity_MW |-> NA,
          Storage_Capacity_MWh |-> NA, Expected_Closure_Year |-> NA]

\* line 340: AUD to millions of AUD, None to 0 (the model's values are whole
\* millions, so the division is exact)
ValueInMillions(value) == IF value = <<>> THEN 0 ELSE value[1] \div 1000000

\* line 343: timestamp[:10], the date part
DatePart(timestamp) == SubSeq(timestamp, 1, 3)

\* RecordsOf that stamps every record with period 1
RecordsOf_period1(data, key, pnum) ==
    [k \in 1..Len(data) |->
        [timestamp |-> DatePart(data[k][1]), key |-> key,
         value |-> ValueInMillions(data[k][2]), period |-> 1]]

\* lines 339-347: one record per <<timestamp, value>> pair, in order
RecordsOf(data, key, pnum) ==
    [k \in 1..Len(data) |->
        [timestamp |-> DatePart(data[k][1]), key |-> key,
         value |-> ValueInMillions(data[k][2]), period |-> pnum]]

\* ProcessResult that replaces all_metadata by the entry of the unit at hand
ProcessResult_overwrite(block, result, st, lookup, region_filter, pnum) ==
    IF ~result.has_columns
    THEN [st EXCEPT !.raised = TRUE]
    ELSE LET duid == result.columns.unit_code
             merged == MergedMetadata(duid, result.name, block.facility_code,
                                      block.network_region, block.fueltech_id, lookup)
             meta == (duid :> merged)
         IN IF duid = NA THEN st
            ELSE IF ~should_include_duid(duid, meta, lookup, region_filter)
            THEN [st EXCEPT !.metadata = meta]
            ELSE [st EXCEPT !.metadata = meta,
                            !.records = st.records \o RecordsOf(result.data, duid, pnum)]

\* lines 292-347: one result of a facility block; st holds the local
\* all_records and all_metadata and whether an exception has been raised
ProcessResult(block, result, st, lookup, region_filter, pnum) ==
    IF ~result.has_columns
    THEN [st EXCEPT !.raised = TRUE]                       \* line 293: KeyError
    ELSE LET duid == result.columns.unit_code
             merged == MergedMetadata(duid, result.name, block.facility_code,
                                      block.network_region, block.fueltech_id, lookup)
             meta == (duid :> merged) @@ st.metadata
         IN IF duid = NA THEN st                            \* lines 297-298
            ELSE IF ~should_include_duid(duid, meta, lookup, region_filter)
            THEN [st EXCEPT !.metadata = meta]              \* lines 335-336
            ELSE [st EXCEPT !.metadata = meta,
                            !.records = st.records \o RecordsOf(result.data, duid, pnum)]

RECURSIVE ProcessResults(_, _, _, _, _, _)
ProcessResults(block, results, st, lookup, region_filter, pnum) ==
    IF results = <<>> \/ st.raised THEN st
    ELSE ProcessResults(block, Tail(results),
                        ProcessResult(block, Head(results), st, lookup, region_filter, pnum),
                        lookup, region_filter, pnum)

RECURSIVE ProcessData(_, _, _, _, _)
\* lines 287-347: every facility block of the payload, until one raises
ProcessData(blocks, st, lookup, region_filter, pnum) ==
    IF blocks = <<>> \/ st.raised THEN st
    ELSE ProcessData(Tail(blocks),
                     ProcessResults(Head(blocks), Head(blocks).results, st,
                                    lookup, region_filter, pnum),
                     lookup, region_filter, pnum)

-----------------------------------------------------------------------------
(* The monthly aggregation, lines 416-427 and 616-625 *)

\* dt.to_period("M")
MonthOf(timestamp) == <<timestamp[1], timestamp[2]>>

RECURSIVE GroupSum_first(_, _, _)
\* GroupSum with .first() in place of .sum()
GroupSum_first(records, month, key) ==
    IF records = <<>> THEN 0
    ELSE LET r == Head(records)
         IN IF MonthOf(r.timestamp) = month /\ r.key = key THEN r.value
            ELSE GroupSum_first(Tail(records), month, key)

RECURSIVE GroupSum(_, _, _)
\* groupby(["month", "key"])["value"].sum() for one group, in list order
GroupSum(records, month, key) ==
    IF records = <<>> THEN 0
    ELSE LET r == Head(records)
         IN (IF MonthOf(r.timestamp) = month /\ r.key = key THEN r.value ELSE 0)
            + GroupSum(Tail(records), month, key)

\* MonthlyDf with a row for the month of the first record only
MonthlyDf_firstmonth(records) ==
    LET index == { MonthOf(records[1].timestamp) }
        columns == { records[k].key : k \in 1..Len(records) }
    IN [index |-> index, columns |-> columns,
        cell |-> [c \in index \X columns |-> GroupSum(records, c[1], c[2])]]

\* ... .unstack(fill_value=0): a month row per month with a record, a column per
\* key with a record, 0 where a (month, key) group has no record
MonthlyDf(records) ==
    LET index == { MonthOf(records[k].timestamp) : k \in 1..Len(records) }
        columns == { records[k].key : k \in 1..Len(records) }
    IN [index |-> index, columns |-> columns,
        cell |-> [c \in index \X columns |-> GroupSum(records, c[1], c[2])]]

\* monthly_df[cols]
SelectColumns(df, cols) ==
    [index |-> df.index, columns |-> cols,
     cell |-> [c \in df.index \X cols |-> df.cell[c]]]

-----------------------------------------------------------------------------
(* categorize_duids, lines 381-408 *)

MaxOf(S) == CHOOSE x \in S : \A y \in S : y <= x

MinOf(S) == CHOOSE x \in S : \A y \in S : x <= y

\* categorize_duids taking min() for max() at line 393
categorize_duids_lowest(apm) ==
    LET period_duids == [p \in DOMAIN apm |-> DOMAIN apm[p]]
        latest == MinOf(DOMAIN period_duids)
        reference == period_duids[latest]
        all_historical_duids ==
            UNION { period_duids[p] : p \in { q \in DOMAIN period_duids : q < latest } }
    IN [reference_duids |-> reference,
        decommissioned_duids |-> all_historical_duids \ reference,
        latest_period |-> latest]

\* categorize_duids without the "- reference_duids" of line 402
categorize_duids_nosubtract(apm) ==
    LET period_duids == [p \in DOMAIN apm |-> DOMAIN apm[p]]
        latest == MaxOf(DOMAIN period_duids)
        reference == period_duids[latest]
        all_historical_duids ==
            UNION { period_duids[p] : p \in { q \in DOMAIN period_duids : q < latest } }
    IN [reference_duids |-> reference,
        decommissioned_duids |-> all_historical_duids,
        latest_period |-> latest]

categorize_duids(apm) ==
    LET period_duids == [p \in DOMAIN apm |-> DOMAIN apm[p]]
        latest == MaxOf(DOMAIN period_duids)
        reference == period_duids[latest]
        all_historical_duids ==
            UNION { period_duids[p] : p \in { q \in DOMAIN period_duids : q < latest } }
    IN [reference_duids |-> reference,
        decommissioned_duids |-> all_historical_duids \ reference,
        latest_period |-> latest]

-----------------------------------------------------------------------------
(* create_output_files, lines 410-566, and the single-period output of     *)
(* main(), lines 614-696.  A written file is the numeric matrix below the   *)
(* metadata header rows.                                                   *)

consolidated_filename == "NSW_Revenue"
decommissioned_filename == "NSW_Decommissioned_Revenue"

\* DecommDf with the columns that have data only (without lines 510-517)
DecommDf_dataonly(monthly_df, decommissioned) ==
    [index |-> monthly_df.index, columns |-> decommissioned \cap monthly_df.columns,
     cell |-> [c \in monthly_df.index \X (decommissioned \cap monthly_df.columns) |->
                 monthly_df.cell[c]]]

\* lines 491-517: a column per decommissioned DUID, zeros where it has no data
DecommDf(monthly_df, decommissioned) ==
    [index |-> monthly_df.index, columns |-> decommissioned,
     cell |-> [c \in monthly_df.index \X decommissioned |->
                 IF c[2] \in monthly_df.columns THEN monthly_df.cell[c] ELSE 0]]

create_output_files(records, apm, reference, decommissioned, latest) ==
    IF records = <<>> THEN EmptyDict                        \* lines 428-430
    ELSE LET monthly_df == MonthlyDf(records)
             reference_columns == monthly_df.columns \cap reference
             main_file == consolidated_filename :> SelectColumns(monthly_df, reference_columns)
         IN IF decommissioned # {}
            THEN (decommissioned_filename :> DecommDf(monthly_df, decommissioned))
                 @@ main_file
            ELSE main_file

\* lines 616-638, 694-695
SinglePeriodOutput(records, metadata) ==
    LET monthly_df == MonthlyDf(records)
        valid_columns == { col \in monthly_df.columns :
                             col \in DOMAIN metadata /\ metadata[col].DUID # NA }
    IN consolidated_filename :> SelectColumns(monthly_df, valid_columns)

-----------------------------------------------------------------------------
(* Initial states *)

ChunkIdle == cpc = "idle" /\ current_start = <<>>

\* no session.get call has been made by the running fetch
NoResponse == [status |-> 0, data |-> <<>>]
NoBatch == [records |-> 0, failed |-> 0, successful |-> 0]

MainIdle ==
    /\ duid_lookup = EmptyDict
    /\ facility_codes = <<>>
    /\ all_records = <<>>
    /\ all_periods_metadata = EmptyDict
    /\ period_num = 0

FetchIdle ==
    /\ f_records = <<>>
    /\ all_metadata = EmptyDict
    /\ i = 0
    /\ attempt = 0
    /\ batch_success = FALSE
    /\ successful_batches = 0
    /\ failed_batches = 0
    /\ batch_log = <<>>
    /\ response = NoResponse
    /\ batch_start = NoBatch
    /\ waited = 0
    /\ failed_log = {}
    /\ faults = 0

OutIdle ==
    /\ reference_duids = {}
    /\ decommissioned_duids = {}
    /\ latest_period = 0
    /\ files = EmptyDict

\* a run of main(): the configuration and the spreadsheet are chosen, nothing
\* has executed yet
Init ==
    /\ \E c \in Configs :
          /\ start_month = c[1][1] /\ start_year = c[1][2]
          /\ end_month = c[1][3] /\ end_year = c[1][4]
          /\ REGION_FILTER = c[2]
          /\ nem_file = c[3]
    /\ pc = "start"
    /\ periods = <<>>
    /\ ChunkIdle /\ MainIdle /\ FetchIdle /\ OutIdle

-----------------------------------------------------------------------------
(* main(), lines 568-719, with fetch_data_for_period, lines 234-379, run   *)
(* step by step                                                            *)

\* fetch_all_facility_codes, lines 188-213: the facility list, or [] when every
\* attempt failed
FacilityLists == { <<>>, [k \in 1..NumFacilities |-> k] }

\* lines 572-595
MainStart ==
    /\ pc = "start"
    /\ duid_lookup' = load_nem_reference_data(nem_file)
    /\ periods' = calculate_date_periods(start_month, start_year, end_month, end_year)
    /\ facility_codes' \in FacilityLists
    /\ all_records' = <<>>
    /\ all_periods_metadata' = EmptyDict
    /\ period_num' = 1
    /\ pc' = "period_loop"
    /\ UNCHANGED <<cfgVars, chunkVars, fetchVars, outVars>>

\* lines 597-599 and 243-257: the next period's fetch starts
PeriodBegin ==
    /\ pc = "period_loop"
    /\ period_num <= Len(periods)
    /\ f_records' = <<>>
    /\ all_metadata' = EmptyDict
    /\ i' = 0
    /\ attempt' = 0
    /\ batch_success' = FALSE
    /\ successful_batches' = 0
    /\ failed_batches' = 0
    /\ batch_log' = <<>>
    /\ response' = NoResponse
    /\ batch_start' = NoBatch
    /\ pc' = IF Len(facility_codes) > 0 THEN "attempt" ELSE "fetch_return"
    /\ UNCHANGED <<cfgVars, chunkVars, periods, duid_lookup, facility_codes,
                   all_records, all_periods_metadata, period_num, waited, faults,
                   failed_log, outVars>>

\* RetryLoopOver without the break of line 351
RetryLoopOver_nobreak(success, att) == att + 1 >= MAX_RETRIES

\* RetryLoopOver of a "while not batch_success" loop
RetryLoopOver_untilsuccess(success, att) == success

\* RetryLoopOver with one pass too many
RetryLoopOver_extra(success, att) == success \/ att + 1 > MAX_RETRIES

\* lines 274 and 351: the retry loop ends on success or after MAX_RETRIES passes
RetryLoopOver(success, att) == success \/ att + 1 >= MAX_RETRIES

\* BackoffDelay with the same wait before every retry
BackoffDelay_constant(att) == RETRY_DELAY

\* line 360: time.sleep(RETRY_DELAY * (attempt + 1))
BackoffDelay(att) == RETRY_DELAY * (att + 1)

\* lines 274-360: one pass of the retry loop for the batch at offset i
Attempt ==
    /\ pc = "attempt"
    /\ \E resp \in OkResponses(facility_codes, i, periods[period_num][1])
                   \cup (IF faults < MaxFaults
                         THEN FaultResponses(facility_codes, i, periods[period_num][1])
                         ELSE {}) :
          LET st == IF ~SessionGetRaises(resp) /\ resp.status = 200
                    THEN ProcessData(resp.data,
                                     [records |-> f_records, metadata |-> all_metadata,
                                      raised |-> FALSE],
                                     duid_lookup, REGION_FILTER, period_num)
                    ELSE [records |-> f_records, metadata |-> all_metadata,
                          raised |-> SessionGetRaises(resp)]
              success == resp.status = 200 /\ ~st.raised
          IN /\ f_records' = st.records
             /\ all_metadata' = st.metadata
             /\ batch_log' = IF attempt = 0 THEN <<resp.status>>
                             ELSE Append(batch_log, resp.status)
             /\ response' = resp
             /\ batch_start' = IF attempt = 0
                               THEN [records |-> Len(f_records), failed |-> failed_batches,
                                     successful |-> successful_batches]
                               ELSE batch_start
             /\ batch_success' = success                              \* line 350
             /\ successful_batches' = successful_batches + (IF success THEN 1 ELSE 0)
             \* lines 356-360: only an exception is followed by a sleep
             /\ waited' = IF st.raised /\ attempt < MAX_RETRIES - 1
                          THEN BackoffDelay(attempt) ELSE 0
             /\ attempt' = IF success THEN attempt ELSE attempt + 1
             /\ pc' = IF RetryLoopOver(success, attempt) THEN "batch_end" ELSE "attempt"
             /\ faults' = IF resp \in OkResponses(facility_codes, i, periods[period_num][1])
                          THEN faults ELSE faults + 1
    /\ UNCHANGED <<cfgVars, chunkVars, periods, duid_lookup, facility_codes,
                   all_records, all_periods_metadata, period_num, i, failed_batches,
                   failed_log, outVars>>

\* PacingDelay that pauses after a successful batch only
PacingDelay_onsuccess(success) == IF success THEN BATCH_DELAY ELSE 0

\* lines 362-367: the pause is outside the "if not batch_success"
PacingDelay(success) == BATCH_DELAY

\* BatchEnd that leaves the for loop when the batch has failed
BatchEnd_abort ==
    /\ pc = "batch_end"
    /\ failed_batches' = IF batch_success THEN failed_batches ELSE failed_batches + 1
    /\ failed_log' = IF batch_success THEN failed_log
                     ELSE failed_log \cup {<<period_num, i>>}       \* line 364
    /\ waited' = waited + PacingDelay(batch_success)
    /\ i' = i + BATCH_SIZE
    /\ attempt' = 0
    /\ batch_success' = FALSE
    /\ pc' = IF batch_success /\ i + BATCH_SIZE < Len(facility_codes)
             THEN "attempt" ELSE "fetch_return"
    /\ UNCHANGED <<cfgVars, chunkVars, periods, duid_lookup, facility_codes,
                   all_records, all_periods_metadata, period_num, f_records,
                   all_metadata, successful_batches, batch_log, response,
                   batch_start, faults, outVars>>

\* lines 362-367 and the step of the for loop at line 259
BatchEnd ==
    /\ pc = "batch_end"
    /\ failed_batches' = IF batch_success THEN failed_batches ELSE failed_batches + 1
    /\ failed_log' = IF batch_success THEN failed_log
                     ELSE failed_log \cup {<<period_num, i>>}       \* line 364
    /\ waited' = waited + PacingDelay(batch_success)
    /\ i' = i + BATCH_SIZE
    /\ attempt' = 0
    /\ batch_success' = FALSE
    /\ pc' = IF i + BATCH_SIZE < Len(facility_codes) THEN "attempt" ELSE "fetch_return"
    /\ UNCHANGED <<cfgVars, chunkVars, periods, duid_lookup, facility_codes,
                   all_records, all_periods_metadata, period_num, f_records,
                   all_metadata, successful_batches, batch_log, response,
                   batch_start, faults, outVars>>

\* lines 369-379 and 600-601: the fetch returns and main() stores its result
FetchReturn ==
    /\ pc = "fetch_return"
    /\ all_records' = all_records \o f_records
    /\ all_periods_metadata' = (period_num :> all_metadata) @@ all_periods_metadata
    /\ period_num' = period_num + 1
    /\ pc' = IF period_num < Len(periods) THEN "period_loop" ELSE "output"
    \* the locals of the call are gone
    /\ f_records' = <<>>
    /\ all_metadata' = EmptyDict
    /\ i' = 0
    /\ attempt' = 0
    /\ batch_success' = FALSE
    /\ successful_batches' = 0
    /\ failed_batches' = 0
    /\ batch_log' = <<>>
    /\ response' = NoResponse
    /\ batch_start' = NoBatch
    /\ UNCHANGED <<cfgVars, chunkVars, periods, duid_lookup, facility_codes,
                   waited, faults, failed_log, outVars>>

\* PeriodRaise without the break of line 606: the loop goes on to the next period
PeriodRaise_continue ==
    /\ pc \in {"period_loop", "fetch_return"}
    /\ pc = "period_loop" => period_num <= Len(periods)
    /\ faults < MaxFaults
    /\ faults' = faults + 1
    /\ period_num' = period_num + 1
    /\ pc' = IF period_num < Len(periods) THEN "period_loop" ELSE "output"
    /\ f_records' = <<>>
    /\ all_metadata' = EmptyDict
    /\ i' = 0
    /\ attempt' = 0
    /\ batch_success' = FALSE
    /\ successful_batches' = 0
    /\ failed_batches' = 0
    /\ batch_log' = <<>>
    /\ response' = NoResponse
    /\ batch_start' = NoBatch
    /\ UNCHANGED <<cfgVars, chunkVars, periods, duid_lookup, facility_codes,
                   all_records, all_periods_metadata, waited, failed_log, outVars>>

\* lines 603-606: an exception escapes fetch_data_for_period (raised outside
\* the retry loop's try, at line 250 or at line 369) and ends the period loop
PeriodRaise ==
    /\ pc \in {"period_loop", "fetch_return"}
    /\ pc = "period_loop" => period_num <= Len(periods)
    /\ faults < MaxFaults
    /\ faults' = faults + 1
    /\ pc' = "output"
    \* the locals of the call are gone
    /\ f_records' = <<>>
    /\ all_metadata' = EmptyDict
    /\ i' = 0
    /\ attempt' = 0
    /\ batch_success' = FALSE
    /\ successful_batches' = 0
    /\ failed_batches' = 0
    /\ batch_log' = <<>>
    /\ response' = NoResponse
    /\ batch_start' = NoBatch
    /\ UNCHANGED <<cfgVars, chunkVars, periods, duid_lookup, facility_codes,
                   all_records, all_periods_metadata, period_num, waited, failed_log, outVars>>

\* lines 608-719: what the rest of main() computes from the accumulated data:
\* nothing, the single-period output, or the categorisation followed by
\* create_output_files (latest_period 0: categorize_duids was not called)
MainOutput(records, apm, nperiods) ==
    IF records = <<>>
    THEN [reference_duids |-> {}, decommissioned_duids |-> {}, latest_period |-> 0,
          files |-> EmptyDict]                                       \* lines 608-610
    ELSE IF nperiods = 1
    THEN [reference_duids |-> {}, decommissioned_duids |-> {}, latest_period |-> 0,
          files |-> SinglePeriodOutput(records, apm[1])]
    ELSE LET cat == categorize_duids(apm)
         IN [reference_duids |-> cat.reference_duids,
             decommissioned_duids |-> cat.decommissioned_duids,
             latest_period |-> cat.latest_period,
             files |-> create_output_files(records, apm, cat.reference_duids,
                                           cat.decommissioned_duids, cat.latest_period)]

Output ==
    /\ pc = "output"
    /\ pc' = "done"
    /\ LET out == MainOutput(all_records, all_periods_metadata, Len(periods))
       IN /\ reference_duids' = out.reference_duids
          /\ decommissioned_duids' = out.decommissioned_duids
          /\ latest_period' = out.latest_period
          /\ files' = out.files
    /\ UNCHANGED <<cfgVars, chunkVars, periods, duid_lookup, facility_codes,
                   all_records, all_periods_metadata, period_num, fetchVars>>

Next ==
    \/ MainStart
    \/ PeriodBegin
    \/ Attempt
    \/ BatchEnd
    \/ FetchReturn
    \/ PeriodRaise
    \/ Output

Spec == Init /\ [][Next]_vars

-----------------------------------------------------------------------------
(* calculate_date_periods run step by step over every month range of Years *)

InitChunker ==
    /\ start_month \in Months /\ start_year \in Years
    /\ end_month \in Months /\ end_year \in Years
    /\ REGION_FILTER = {}
    /\ nem_file = [found |-> FALSE, rows |-> <<>>]
    /\ cpc = "begin"
    /\ current_start = <<>>
    /\ periods = <<>>
    /\ pc = "chunker"
    /\ MainIdle /\ FetchIdle /\ OutIdle

\* lines 100-129
CalcBegin ==
    /\ cpc = "begin"
    /\ IF TotalDays(start_month, start_year, end_month, end_year) <= 365
       THEN /\ periods' = << <<StartDateOf(start_month, start_year),
                               EndDateOf(end_month, end_year)>> >>
            /\ cpc' = "returned"
            /\ UNCHANGED current_start
       ELSE /\ periods' = <<>>
            /\ current_start' = StartDateOf(start_month, start_year)
            /\ cpc' = "loop"
    /\ UNCHANGED <<cfgVars, mainVars, fetchVars, outVars>>

\* lines 131-142: one pass of the while loop
CalcIterate ==
    /\ cpc = "loop"
    /\ DateLT(current_start, EndDateOf(end_month, end_year))
    /\ LET p == ChunkPeriod(current_start, EndDateOf(end_month, end_year))
       IN /\ periods' = Append(periods, p)
          /\ current_start' = NextStart(p[2])
    /\ UNCHANGED <<cfgVars, cpc, mainVars, fetchVars, outVars>>

\* line 148
CalcReturn ==
    /\ cpc = "loop"
    /\ ~DateLT(current_start, EndDateOf(end_month, end_year))
    /\ cpc' = "returned"
    /\ UNCHANGED <<cfgVars, current_start, periods, mainVars, fetchVars, outVars>>

NextChunker == CalcBegin \/ CalcIterate \/ CalcReturn

SpecChunker == InitChunker /\ [][NextChunker]_vars

-----------------------------------------------------------------------------
(* Termination: the run of main() and the run of calculate_date_periods on  *)
(* its own, over every input of either                                       *)

InitTerminates == Init \/ InitChunker

NextTerminates == Next \/ NextChunker

SpecTerminates == InitTerminates /\ [][NextTerminates]_vars

-----------------------------------------------------------------------------
(* Properties *)

\* the FacilityKeys with metadata in period p of the metadata map
KeysOf(p) == DOMAIN all_periods_metadata[p]

\* p is the highest-numbered period of the metadata map
IsHighest(p) ==
    p \in DOMAIN all_periods_metadata /\ \A q \in DOMAIN all_periods_metadata : q <= p

\* categorize_duids has run
Categorized == pc = "done" /\ latest_period # 0

\* C1: ReferenceSet is exactly the keys with metadata in the highest-numbered
\* period of the metadata map, DecommissionedSet exactly the keys with metadata
\* in some lower-numbered period and none in the highest-numbered one
C1_Categorize ==
    Categorized =>
        \A hi \in DOMAIN all_periods_metadata :
            IsHighest(hi) =>
                /\ latest_period = hi
                /\ \A d \in DUIDs :
                      /\ d \in reference_duids <=> d \in KeysOf(hi)
                      /\ d \in decommissioned_duids <=>
                            /\ \E p \in DOMAIN all_periods_metadata :
                                  p < hi /\ d \in KeysOf(p)
                            /\ d \notin KeysOf(hi)

\* periods 1..3, A only in periods 1-2, B in all three
C1_Witness ==
    /\ Categorized
    /\ DOMAIN all_periods_metadata = 1..3
    /\ "A" \in KeysOf(1) /\ "A" \in KeysOf(2) /\ "A" \notin KeysOf(3)
    /\ \A p \in 1..3 : "B" \in KeysOf(p)
    /\ "A" \in decommissioned_duids /\ "A" \notin reference_duids
    /\ "B" \in reference_duids /\ "B" \notin decommissioned_duids

\* every FacilityKey with metadata in some fetched period
ObservedKeys == UNION { KeysOf(p) : p \in DOMAIN all_periods_metadata }

\* C2: after a multi-period run that categorised, the two sets are disjoint and
\* every FacilityKey in the metadata of a fetched period is in exactly one of them
C2_Partition ==
    (Categorized /\ Len(periods) > 1) =>
        /\ reference_duids \cap decommissioned_duids = {}
        /\ reference_duids \cup decommissioned_duids = ObservedKeys

\* a two-period run with a key in both periods and a key in the first only
C2_Witness ==
    /\ Categorized
    /\ Len(periods) = 2
    /\ DOMAIN all_periods_metadata = 1..2
    /\ KeysOf(1) = {"A", "B"} /\ KeysOf(2) = {"B"}
    /\ reference_duids = {"B"} /\ decommissioned_duids = {"A"}

\* the requested range is valid: the start month is not after the end month
ValidRange == start_year < end_year \/ (start_year = end_year /\ start_month <= end_month)

\* C6: for a valid range the returned periods start on the first day of the
\* start month, end on the last day of the end month, and each period starts the
\* day after the previous one ends, with no period ending before it starts;
\* 2024-01..2025-06 gives (2024-01-01, 2024-12-31), (2025-01-01, 2025-06-30)
C6_Contiguous ==
    (cpc = "returned" /\ ValidRange) =>
        /\ Len(periods) >= 1
        /\ periods[1][1] = <<start_year, start_month, 1>>
        /\ periods[Len(periods)][2] =
              <<end_year, end_month, DaysInMonth(end_year, end_month)>>
        /\ \A k \in 1..Len(periods) : Ordinal(periods[k][1]) <= Ordinal(periods[k][2])
        /\ \A k \in 1..(Len(periods) - 1) :
              Ordinal(periods[k + 1][1]) = Ordinal(periods[k][2]) + 1
        /\ (<<start_month, start_year, end_month, end_year>> = <<1, 2024, 6, 2025>>) =>
              periods = << << <<2024, 1, 1>>, <<2024, 12, 31>> >>,
                           << <<2025, 1, 1>>, <<2025, 6, 30>> >> >>

\* the range 2024-01..2025-06 has been chunked into its two periods
C6_Witness ==
    /\ cpc = "returned"
    /\ <<start_month, start_year, end_month, end_year>> = <<1, 2024, 6, 2025>>
    /\ Len(periods) = 2
    /\ periods[2][1] = <<2025, 1, 1>>

\* C7: every returned period has end - start <= 365 days; a range of at most 365
\* days is one period; in a longer range every non-final period ends the day
\* before the same date one year after its start and the final one ends on the
\* overall end date
C7_PeriodLength ==
    cpc = "returned" =>
        LET total == Ordinal(<<end_year, end_month, DaysInMonth(end_year, end_month)>>)
                     - Ordinal(<<start_year, start_month, 1>>)
        IN /\ \A k \in 1..Len(periods) :
                 Ordinal(periods[k][2]) - Ordinal(periods[k][1]) <= 365
           /\ total <= 365 => Len(periods) = 1
           /\ total > 365 =>
                 /\ \A k \in 1..(Len(periods) - 1) :
                       Ordinal(periods[k][2]) + 1 =
                          Ordinal(<<periods[k][1][1] + 1, periods[k][1][2], periods[k][1][3]>>)
                 /\ periods[Len(periods)][2] =
                       <<end_year, end_month, DaysInMonth(end_year, end_month)>>

\* a long range whose first period spans a 29 February (365 days from start to
\* end) and whose last period is cut short by the overall end date
C7_Witness ==
    /\ cpc = "returned"
    /\ Len(periods) >= 3
    /\ Ordinal(periods[1][2]) - Ordinal(periods[1][1]) = 365
    /\ Ordinal(periods[Len(periods)][2]) - Ordinal(periods[Len(periods)][1]) < 364

\* some record of the list has key d
HasRecords(recs, d) == \E k \in 1..Len(recs) : recs[k].key = d

\* C3: with a non-empty allow-list the records of a facility the API returned
\* are retained iff the Region of its merged metadata is in the allow-list; with
\* an empty allow-list they are always retained
C3_RetainedIffRegion ==
    \A d \in DOMAIN all_metadata :
        HasRecords(f_records, d) <=>
            (REGION_FILTER = {} \/ all_metadata[d].Region \in REGION_FILTER)

\* the region filter rejects unit d whenever the API returns it
RejectedByFilter(d) ==
    ~should_include_duid(d,
                         d :> MergedMetadata(d, d, FacilityOf(d), ApiRegion(d),
                                             ApiFueltech(d), duid_lookup),
                         duid_lookup, REGION_FILTER)

\* C4: a facility the region filter rejects has no entry in any period's
\* metadata map, is in neither lifecycle set and is a column of no output matrix
C4_RejectedNowhere ==
    \A d \in DUIDs :
        (pc # "start" /\ RejectedByFilter(d)) =>
            /\ d \notin DOMAIN all_metadata
            /\ \A p \in DOMAIN all_periods_metadata : d \notin KeysOf(p)
            /\ d \notin reference_duids \cup decommissioned_duids
            /\ \A f \in DOMAIN files : d \notin files[f].columns

\* C5: a facility absent from the reference dataset has its records retained
\* whenever its API-reported Region passes the region filter
C5_AbsentFromReferenceRetained ==
    \A d \in DOMAIN all_metadata :
        (d \notin DOMAIN duid_lookup
         /\ (REGION_FILTER = {} \/ ApiRegion(d) \in REGION_FILTER)) =>
            HasRecords(f_records, d)

RECURSIVE SumValues(_, _)
\* the sum of the values of the records at the indices S, in any order
SumValues(recs, S) ==
    IF S = {} THEN 0
    ELSE LET k == CHOOSE x \in S : TRUE
         IN recs[k].value + SumValues(recs, S \ {k})

\* the indices of the records of a month and a facility
Matching(recs, month, key) ==
    { k \in 1..Len(recs) : recs[k].timestamp[1] = month[1]
                           /\ recs[k].timestamp[2] = month[2]
                           /\ recs[k].key = key }

Reversed(recs) == [k \in 1..Len(recs) |-> recs[Len(recs) + 1 - k]]

\* the list with the records at k and k + 1 exchanged
Swapped(recs, k) ==
    [j \in 1..Len(recs) |-> IF j = k THEN recs[k + 1]
                            ELSE IF j = k + 1 THEN recs[k] ELSE recs[j]]

\* C8: every (month, facility) cell of a written matrix is the sum of the values
\* of the retained records of that month and facility, and the matrices are the
\* same when the record list is reversed or two neighbours are exchanged
C8_MonthlySums ==
    pc = "done" =>
        /\ \A f \in DOMAIN files :
              \A c \in files[f].index \X files[f].columns :
                 files[f].cell[c] = SumValues(all_records, Matching(all_records, c[1], c[2]))
        /\ MainOutput(Reversed(all_records), all_periods_metadata, Len(periods)).files
              = files
        /\ \A k \in 1..(Len(all_records) - 1) :
              MainOutput(Swapped(all_records, k), all_periods_metadata,
                         Len(periods)).files = files

\* a written matrix with a cell that sums two records of different value, and
\* more than one month row
C8_Witness ==
    /\ pc = "done"
    /\ \E f \in DOMAIN files :
          /\ Cardinality(files[f].index) >= 2
          /\ \E c \in files[f].index \X files[f].columns :
                /\ Cardinality(Matching(all_records, c[1], c[2])) = 2
                /\ files[f].cell[c] = 5

\* C9: no measurement (facility, date) is in the accumulated record list twice
C9_NoDoubleCount ==
    LET recs == all_records \o f_records
    IN \A j, k \in 1..Len(recs) :
          j < k => ~(recs[j].key = recs[k].key /\ recs[j].timestamp = recs[k].timestamp)

\* every attempt of the batch started last met status 500
AllFailed500 == batch_log # <<>> /\ \A k \in 1..Len(batch_log) : batch_log[k] = 500

\* the batch started last is inside its retry loop, or at lines 362-367
BatchRunning == pc = "batch_end" \/ (pc = "attempt" /\ attempt > 0)

\* the batch started last has passed lines 362-367
BatchOver == batch_log # <<>> /\ (pc = "fetch_return" \/ (pc = "attempt" /\ attempt = 0))

\* C10: a batch is attempted at most MAX_RETRIES times, and one whose attempts
\* all fail with status 500 adds no record and, once over, has incremented
\* failed_batches exactly once
C10_FailedBatch ==
    /\ Len(batch_log) <= MAX_RETRIES
    /\ AllFailed500 =>
          /\ Len(f_records) = batch_start.records
          /\ BatchRunning => failed_batches = batch_start.failed
          /\ BatchOver => /\ Len(batch_log) = MAX_RETRIES
                          /\ failed_batches = batch_start.failed + 1

\* the second batch of a period has failed three times with status 500 after
\* the first batch added records
C10_Witness ==
    /\ pc = "fetch_return"
    /\ batch_log = <<500, 500, 500>>
    /\ batch_start.records > 0
    /\ failed_batches = 1
    /\ successful_batches = 1

\* the payload has no result without "columns"
WellFormed(data) ==
    \A b \in 1..Len(data) :
        \A r \in 1..Len(data[b].results) : data[b].results[r].has_columns

\* the batch started last made two calls and the second one returned status
\* 200 with a well-formed payload
SecondAttemptOk ==
    /\ Len(batch_log) = 2
    /\ response.status = 200
    /\ WellFormed(response.data)

\* the measurement <<timestamp, value>> of unit d is among the records the
\* batch started last appended
Contributed(d, pair) ==
    \E k \in (batch_start.records + 1)..Len(f_records) :
        f_records[k] = [timestamp |-> SubSeq(pair[1], 1, 3), key |-> d,
                        value |-> IF pair[2] = <<>> THEN 0 ELSE pair[2][1] \div 1000000,
                        period |-> period_num]

\* C11: a batch whose first attempt fails and whose second attempt returns a
\* well-formed status 200 response has every measurement of that response that
\* passes the region filter in the returned records, makes no third attempt, and
\* is counted in successful_batches and not in failed_batches
C11_SecondAttempt ==
    SecondAttemptOk =>
        /\ ~(pc = "attempt" /\ attempt > 0)
        /\ pc = "batch_end" => batch_success
        /\ \A b \in 1..Len(response.data) :
              \A r \in 1..Len(response.data[b].results) :
                 LET result == response.data[b].results[r]
                     d == result.columns.unit_code
                 IN should_include_duid(d, all_metadata, duid_lookup, REGION_FILTER) =>
                       \A n \in 1..Len(result.data) : Contributed(d, result.data[n])
        /\ successful_batches = batch_start.successful + 1
        /\ (BatchRunning \/ BatchOver) => failed_batches = batch_start.failed

\* the second batch of a period is over: its first attempt met status 500, its
\* second a status 200 payload whose two measurements were appended
C11_Witness ==
    /\ pc = "fetch_return"
    /\ batch_log = <<500, 200>>
    /\ i = 2 * BATCH_SIZE
    /\ Len(response.data) = 1
    /\ Len(f_records) = batch_start.records + 2
    /\ successful_batches = batch_start.successful + 1
    /\ failed_batches = 0

\* the status is neither 200 nor in the retryable set
NonRetryable(status) == status # 200 /\ status \notin status_forcelist

\* C12: a response whose status is neither 200 nor retryable is the last call
\* of its batch, and the batch, once over, has been counted as failed
C12_NonRetryableTerminal ==
    \A k \in 1..Len(batch_log) :
        NonRetryable(batch_log[k]) =>
            /\ k = Len(batch_log)
            /\ BatchOver => failed_batches = batch_start.failed + 1

\* C13: a retry of a batch after a rate-limit or server-error response is
\* preceded by a wait of RETRY_DELAY times the number of the failed attempt (5 s
\* before the second attempt, 10 s before the third), never by no wait
C13_Backoff ==
    (pc = "attempt" /\ attempt > 0 /\ batch_log[Len(batch_log)] \in status_forcelist) =>
        /\ Len(batch_log) = attempt
        /\ waited = RETRY_DELAY * attempt
        /\ waited > 0
        /\ attempt = 2 => waited = 2 * RETRY_DELAY

\* the third attempt of a batch is due after a rate-limit and a server-error
\* response, 10 s after the second one
C13_Witness ==
    /\ pc = "attempt"
    /\ attempt = 2
    /\ batch_log = <<429, 500>>
    /\ waited = 10

\* the first call of a batch is due and it is not the first call of the run
NextBatchDue == pc = "attempt" /\ attempt = 0 /\ (i > 0 \/ period_num > 1)

\* C14: at least BATCH_DELAY seconds are slept between the last call of a batch
\* and the first call of the next batch, in the same period or as the first
\* batch of the next period, whether the earlier batch succeeded or failed
C14_Pacing == NextBatchDue => waited >= BATCH_DELAY

\* the first call of period 2 is due after a period 1 in which calls failed and
\* nothing was retained, BATCH_DELAY seconds after the last call of period 1
C14_Witness ==
    /\ pc = "attempt" /\ attempt = 0
    /\ period_num = 2 /\ i = 0
    /\ faults > 0
    /\ all_records = <<>>
    /\ waited = BATCH_DELAY

\* the reference spreadsheet was read and has a row for unit d
InReference(d) ==
    nem_file.found /\ \E k \in 1..Len(nem_file.rows) : nem_file.rows[k].DUID = d

\* the row of the spreadsheet that describes unit d (the last one, if several)
ReferenceRow(d) ==
    nem_file.rows[CHOOSE k \in 1..Len(nem_file.rows) :
                     /\ nem_file.rows[k].DUID = d
                     /\ \A j \in (k + 1)..Len(nem_file.rows) : nem_file.rows[j].DUID # d]

MetadataFields ==
    {"DUID", "Name", "Facility", "Region", "Fueltech", "Owner", "Number_of_Units",
     "Nameplate_Capacity_MW", "Storage_Capacity_MWh", "Expected_Closure_Year"}

\* the merged metadata m of unit d is the one the claim describes
MergedAsSpecified(d, m) ==
    /\ DOMAIN m = MetadataFields
    /\ IF InReference(d)
       THEN LET ref == ReferenceRow(d)
            IN /\ m.Region = ref.Region
               /\ m.Facility = ref.Facility
               /\ m.Fueltech = ref.Fueltech
               /\ m.Owner = ref.Owner
               /\ m.Number_of_Units = ref.Number_of_Units
               /\ m.Nameplate_Capacity_MW = ref.Nameplate_Capacity_MW
               /\ m.Storage_Capacity_MWh = ref.Storage_Capacity_MWh
               /\ m.Expected_Closure_Year = ref.Expected_Closure_Year
               /\ (ref.Region = "NSW1" /\ ApiRegion(d) = "UNKNOWN") => m.Region = "NSW1"
       ELSE /\ m.Region = ApiRegion(d)
            /\ m.Facility = FacilityOf(d)
            /\ m.Fueltech = ApiFueltech(d)
            /\ \A f \in {"Owner", "Number_of_Units", "Nameplate_Capacity_MW",
                         "Storage_Capacity_MWh", "Expected_Closure_Year"} : m[f] = NA

\* C15: the merged metadata of a unit of the reference dataset takes Region,
\* Facility, Fueltech and the enrichment fields from its reference row (Region
\* NSW1 wins over the API's UNKNOWN); that of a unit absent from it has the
\* API-reported descriptive fields and N/A in every enrichment field, with no
\* field missing
C15_Merge ==
    /\ \A d \in DOMAIN all_metadata : MergedAsSpecified(d, all_metadata[d])
    /\ \A p \in DOMAIN all_periods_metadata :
          \A d \in KeysOf(p) : MergedAsSpecified(d, all_periods_metadata[p][d])

\* the spreadsheet knows B only, as NSW1; the API reported A (absent from it) and
\* B (Region UNKNOWN)
C15_Witness ==
    /\ nem_file = FileOnlyB
    /\ DOMAIN all_metadata = {"A", "B"}
    /\ ApiRegion("B") = "UNKNOWN"
    /\ all_metadata["B"].Region = "NSW1"
    /\ all_metadata["B"].Owner = "RefOwner"
    /\ all_metadata["A"].Region = ApiRegion("A")
    /\ all_metadata["A"].Owner = NA

\* C16: for a unit of the reference dataset whose reference Region is
\* unresolved, the merged metadata holds the API-reported Region
C16_UnresolvedFallsBack ==
    \A d \in DOMAIN all_metadata :
        (InReference(d) /\ ReferenceRow(d).Region = NA) =>
            all_metadata[d].Region = ApiRegion(d)

\* C17: when the reference spreadsheet is missing or unreadable the lookup is
\* empty, the run goes on, the merged metadata is the API-reported one with N/A
\* enrichment, and the records retained are those the API-reported Region
\* admits
C17_MissingReference ==
    (~nem_file.found /\ pc # "start") =>
        /\ duid_lookup = EmptyDict
        /\ \A d \in DOMAIN all_metadata :
              /\ all_metadata[d].Region = ApiRegion(d)
              /\ all_metadata[d].Owner = NA
              /\ HasRecords(f_records, d) <=>
                    (REGION_FILTER = {} \/ ApiRegion(d) \in REGION_FILTER)

\* the period loop was left by the break of line 606 while period period_num
\* was being fetched
PeriodRaised == pc \in {"output", "done"} /\ period_num <= Len(periods)

\* C18: when fetching period k raises, no later period is started (the metadata
\* map holds exactly periods 1..k-1 and no record is of period k or later), the
\* records and metadata of periods 1..k-1 are left as they were, and the run
\* ends having written the consolidated matrix from those records when there
\* are any
C18_PartialData ==
    /\ [](pc \in {"period_loop", "output", "done"} =>
             DOMAIN all_periods_metadata = 1..(period_num - 1))
    /\ [](PeriodRaised =>
             /\ \A k \in 1..Len(all_records) : all_records[k].period < period_num
             /\ pc = "output" => ENABLED Output
             /\ (pc = "done" /\ all_records # <<>>) =>
                   /\ consolidated_filename \in DOMAIN files
                   /\ files[consolidated_filename].index =
                         { <<all_records[k].timestamp[1], all_records[k].timestamp[2]>> :
                              k \in 1..Len(all_records) })
    /\ [][(~PeriodRaised /\ PeriodRaised') =>
             (all_records' = all_records /\ all_periods_metadata' = all_periods_metadata)]_vars

\* a three-period run in which the fetch of period 2 raised: the output was
\* written from the records of period 1
C18_Witness ==
    /\ pc = "done"
    /\ Len(periods) = 3
    /\ period_num = 2
    /\ DOMAIN all_periods_metadata = {1}
    /\ all_records # <<>>
    /\ consolidated_filename \in DOMAIN files
    /\ files[consolidated_filename].columns # {}

\* C19: when the metadata map of a finished run holds exactly one period,
\* categorize_duids was not called and the output is the single-matrix one
C19_CategorizeOnlyMultiPeriod ==
    (pc = "done" /\ Cardinality(DOMAIN all_periods_metadata) = 1) =>
        /\ latest_period = 0
        /\ all_records # <<>> =>
              files = SinglePeriodOutput(all_records, all_periods_metadata[1])

\* C20: a single-period run that retained records does not categorise and
\* writes one matrix whose columns are exactly the FacilityKeys of the period's
\* metadata map
C20_SinglePeriodColumns ==
    (pc = "done" /\ Len(periods) = 1 /\ all_records # <<>>) =>
        /\ latest_period = 0
        /\ DOMAIN files = {consolidated_filename}
        /\ files[consolidated_filename].columns = KeysOf(1)

\* C21: the columns of the decommissioned matrix are exactly DecommissionedSet:
\* the matrix is written whenever the set is not empty, a decommissioned key
\* without any record is a column that is zero in every month row, and no other
\* key is a column
C21_DecommColumns ==
    (Categorized /\ all_records # <<>>) =>
        /\ decommissioned_duids # {} => decommissioned_filename \in DOMAIN files
        /\ decommissioned_filename \in DOMAIN files =>
              LET m == files[decommissioned_filename]
              IN /\ m.columns = decommissioned_duids
                 /\ \A d \in decommissioned_duids :
                       ~HasRecords(all_records, d) =>
                           \A month \in m.index : m.cell[<<month, d>>] = 0

\* unit A has metadata in period 1 only and no record at all: it is a zero
\* column of the decommissioned matrix
C21_Witness ==
    /\ Categorized
    /\ decommissioned_duids = {"A"}
    /\ ~HasRecords(all_records, "A")
    /\ decommissioned_filename \in DOMAIN files
    /\ "A" \in files[decommissioned_filename].columns
    /\ files[decommissioned_filename].index # {}

\* C22: a run that writes output writes exactly one matrix when the range is a
\* single period, and exactly two (the consolidated and the decommissioned one)
\* when it is several periods
C22_MatrixCount ==
    (pc = "done" /\ all_records # <<>>) =>
        IF Len(periods) = 1
        THEN DOMAIN files = {consolidated_filename}
        ELSE DOMAIN files = {consolidated_filename, decommissioned_filename}

\* C23: in the output every month with a retained record is a row of every
\* matrix written, every FacilityKey with a retained record is a column of
\* exactly one matrix written, and a cell without any record is zero
C23_RowsAndColumns ==
    (pc = "done" /\ all_records # <<>>) =>
        /\ files # EmptyDict
        /\ \A k \in 1..Len(all_records) :
              LET r == all_records[k]
              IN /\ \A f \in DOMAIN files :
                       <<r.timestamp[1], r.timestamp[2]>> \in files[f].index
                 /\ Cardinality({ f \in DOMAIN files : r.key \in files[f].columns }) = 1
        /\ \A f \in DOMAIN files :
              \A c \in files[f].index \X files[f].columns :
                 Matching(all_records, c[1], c[2]) = {} => files[f].cell[c] = 0

\* a multi-period run wrote two matrices with two month rows: B, with records
\* in one month only, is a column of the consolidated one and A of the other
C23_Witness ==
    /\ pc = "done"
    /\ DOMAIN files = {consolidated_filename, decommissioned_filename}
    /\ HasRecords(all_records, "A") /\ HasRecords(all_records, "B")
    /\ Cardinality(files[consolidated_filename].index) = 2
    /\ "B" \in files[consolidated_filename].columns
    /\ "A" \in files[decommissioned_filename].columns
    /\ \E c \in files[consolidated_filename].index \X {"B"} :
          Matching(all_records, c[1], c[2]) = {} /\ files[consolidated_filename].cell[c] = 0

\* C24: when the requested start month is after the end month,
\* calculate_date_periods returns no period list
C24_InvalidRangeRejected == ~ValidRange => (cpc # "returned" /\ periods = <<>>)

\* the number of batches of the facility list: len(range(0, len, BATCH_SIZE))
NumBatches == (Len(facility_codes) + BATCH_SIZE - 1) \div BATCH_SIZE

\* the offsets the for loop of line 259 visits
BatchOffsets == { n * BATCH_SIZE : n \in 0..(NumBatches - 1) }

\* the positions of the facility list that the batch at offset off holds
BatchPositions(off) ==
    { k \in 1..Len(facility_codes) : off < k /\ k <= off + BATCH_SIZE }

\* C25: the facility list is cut into consecutive batches of at most 20 keys,
\* each key in exactly one batch; the batches are taken one after the other
\* whether or not earlier ones failed, each counted once as successful or
\* failed, and when the fetch returns the two counters add up to the number of
\* batches
C25_BatchAccounting ==
    /\ pc = "period_loop" =>
          /\ \A off \in BatchOffsets :
                /\ BatchPositions(off) # {}
                /\ Cardinality(BatchPositions(off)) <= 20
          /\ \A k \in 1..Len(facility_codes) :
                Cardinality({ off \in BatchOffsets : k \in BatchPositions(off) }) = 1
    /\ pc \in {"attempt", "batch_end"} =>
          /\ i \in BatchOffsets
          /\ successful_batches + failed_batches =
                i \div BATCH_SIZE + (IF pc = "batch_end" /\ batch_success THEN 1 ELSE 0)
    /\ pc = "fetch_return" =>
          /\ successful_batches + failed_batches = NumBatches
          /\ i = NumBatches * BATCH_SIZE

\* the fetch of a period returns after its first batch failed and its second
\* batch succeeded with records
C25_Witness ==
    /\ pc = "fetch_return"
    /\ NumBatches = 2
    /\ failed_batches = 1
    /\ successful_batches = 1
    /\ batch_log = <<200>>
    /\ batch_start.failed = 1
    /\ f_records # <<>>

\* the record's date lies in the window of the period it is stamped with
InItsPeriod(r) ==
    /\ r.period \in 1..Len(periods)
    /\ Ordinal(periods[r.period][1]) <= Ordinal(r.timestamp)
    /\ Ordinal(r.timestamp) <= Ordinal(periods[r.period][2])

\* C26: periods are fetched in ascending number, one after the other: while
\* period period_num is being fetched the records and metadata stored are those
\* of the periods 1..period_num-1 and the records being collected carry
\* period_num; periods are numbered chronologically, every record's date lies
\* in the window of its period number, and the highest key of the metadata map
\* is the latest window fetched
C26_AscendingPeriods ==
    pc \notin {"start", "chunker"} =>
        /\ \A k \in 1..(Len(periods) - 1) :
              Ordinal(periods[k][2]) < Ordinal(periods[k + 1][1])
        /\ \A k \in 1..Len(all_records) :
              /\ InItsPeriod(all_records[k])
              /\ all_records[k].period \in DOMAIN all_periods_metadata
              /\ k > 1 => all_records[k - 1].period <= all_records[k].period
        /\ \A k \in 1..Len(f_records) :
              /\ InItsPeriod(f_records[k])
              /\ f_records[k].period = period_num
        /\ pc \in {"period_loop", "attempt", "batch_end", "fetch_return"} =>
              /\ DOMAIN all_periods_metadata = 1..(period_num - 1)
              /\ \A k \in 1..Len(all_records) : all_records[k].period < period_num
        /\ Categorized =>
              \A p \in DOMAIN all_periods_metadata :
                 Ordinal(periods[p][1]) <= Ordinal(periods[latest_period][1])

\* period 2 is being fetched and has retained records, after period 1 was
\* stored with its records
C26_Witness ==
    /\ pc = "batch_end"
    /\ period_num = 2
    /\ DOMAIN all_periods_metadata = {1}
    /\ all_records # <<>>
    /\ f_records # <<>>
    /\ f_records[1].timestamp = periods[2][1]

\* the orders in which the batches of a period can be taken
BatchOrders ==
    { o \in [1..NumBatches -> BatchOffsets] :
         \A a, b \in 1..NumBatches : a # b => o[a] # o[b] }

\* the fixed answers of the API for the period at hand: a status 200 payload per
\* batch (an empty one for a batch that contributes nothing)
BatchAnswers ==
    LET start == periods[period_num][1]
        answer(off) == GoodPayloads(facility_codes, off, start)
    IN { f \in [BatchOffsets -> UNION { answer(off) : off \in BatchOffsets }] :
            \A off \in BatchOffsets : f[off] \in answer(off) }

RECURSIVE ProcessBatches(_, _, _)
\* the payloads of the batches processed in the given order, lines 259-347
ProcessBatches(order, answers, st) ==
    IF order = <<>> THEN st
    ELSE ProcessBatches(Tail(order), answers,
                        ProcessData(answers[Head(order)], st, duid_lookup,
                                    REGION_FILTER, period_num))

\* what the fetch of the period returns when its batches are taken in order o
FetchInOrder(o, answers) ==
    ProcessBatches(o, answers,
                   [records |-> <<>>, metadata |-> EmptyDict, raised |-> FALSE])

\* the two lists hold the same records the same number of times
SameMultiset(a, b) ==
    /\ Len(a) = Len(b)
    /\ \A k \in 1..Len(a) :
          Cardinality({ j \in 1..Len(a) : a[j] = a[k] })
             = Cardinality({ j \in 1..Len(b) : b[j] = a[k] })

\* the first call of a period is due
PeriodFetchStarts == pc = "attempt" /\ i = 0 /\ attempt = 0

\* C27: for fixed API answers, every order of the batches of a period gives the
\* same metadata map, the same multiset of retained records, the same monthly
\* matrix and the same two lifecycle sets
C27_BatchOrderIrrelevant ==
    PeriodFetchStarts =>
        \A answers \in BatchAnswers :
            \A o1, o2 \in BatchOrders :
                LET r1 == FetchInOrder(o1, answers)
                    r2 == FetchInOrder(o2, answers)
                    apm1 == (period_num :> r1.metadata) @@ all_periods_metadata
                    apm2 == (period_num :> r2.metadata) @@ all_periods_metadata
                IN /\ r1.metadata = r2.metadata
                   /\ SameMultiset(r1.records, r2.records)
                   /\ MonthlyDf(all_records \o r1.records)
                         = MonthlyDf(all_records \o r2.records)
                   /\ categorize_duids(apm1) = categorize_duids(apm2)

\* a period of two batches is about to be fetched, and answers exist for which
\* the two batch orders return the four records in different list order
C27_Witness ==
    /\ PeriodFetchStarts
    /\ NumBatches = 2
    /\ \E answers \in BatchAnswers :
          \E o1, o2 \in BatchOrders :
             /\ Len(FetchInOrder(o1, answers).records) = 4
             /\ FetchInOrder(o1, answers).records # FetchInOrder(o2, answers).records
             /\ DOMAIN FetchInOrder(o1, answers).metadata = {"A", "B"}

\* the batch that holds the facility of unit d failed after all retries while
\* period p was fetched
BatchOfUnitFailed(d, p) ==
    \E off \in BatchOffsets :
        d \in UnitsInBatch(facility_codes, off) /\ <<p, off>> \in failed_log

\* C28: a facility is in DecommissionedSet only if, in the latest period, the
\* batch that holds it was fetched successfully and did not report it; one whose
\* latest-period batch failed after all retries is not classified decommissioned
C28_FailureNotDecommission ==
    Categorized =>
        \A d \in decommissioned_duids :
            /\ d \notin KeysOf(latest_period)
            /\ ~BatchOfUnitFailed(d, latest_period)

\* the day with ordinal o lies inside the half-open window
\* [DATE_START, DATE_END) of period k: both bounds are the first instant of
\* their day
DayQueried(o, k) ==
    /\ Ordinal(SubSeq(DATE_START(periods[k][1]), 1, 3)) <= o
    /\ o < Ordinal(SubSeq(DATE_END(periods[k][2]), 1, 3))

\* C29: every day of the requested range lies inside the query window of
\* exactly one period
C29_EveryDayQueried ==
    (cpc = "returned" /\ ValidRange) =>
        \A o \in Ordinal(<<start_year, start_month, 1>>)
                 ..Ordinal(<<end_year, end_month, DaysInMonth(end_year, end_month)>>) :
            Cardinality({ k \in 1..Len(periods) : DayQueried(o, k) }) = 1

\* an upper bound on the steps one period's fetch takes with a facility list of
\* n codes: its start, MAX_RETRIES attempts and the end of each batch, its return
PeriodSteps(n) == 2 + ((n + BATCH_SIZE - 1) \div BATCH_SIZE) * (MAX_RETRIES + 1)

\* the steps left after the fetch of period period_num has returned
StepsAfterPeriod == (Len(periods) - period_num) * PeriodSteps(Len(facility_codes)) + 1

\* the steps left for the batches after the one at offset i, and the return
StepsAfterBatch == (NumBatches - i \div BATCH_SIZE - 1) * (MAX_RETRIES + 1) + 1

\* an upper bound on the steps the run can still take
StepsLeft ==
    CASE pc = "chunker" /\ cpc = "begin" ->
            LET total == TotalDays(start_month, start_year, end_month, end_year)
            IN (IF total > 0 THEN total ELSE 0) + 2
      [] pc = "chunker" /\ cpc = "loop" ->
            LET left == DaysBetween(EndDateOf(end_month, end_year), current_start)
            IN (IF left > 0 THEN left ELSE 0) + 1
      [] pc = "chunker" /\ cpc = "returned" -> 0
      [] pc = "start" ->
            Len(calculate_date_periods(start_month, start_year, end_month, end_year))
               * PeriodSteps(NumFacilities) + 2
      [] pc = "period_loop" ->
            PeriodSteps(Len(facility_codes)) + StepsAfterPeriod
      [] pc = "attempt" ->
            (MAX_RETRIES - attempt) + 1 + StepsAfterBatch + StepsAfterPeriod
      [] pc = "batch_end" -> 1 + StepsAfterBatch + StepsAfterPeriod
      [] pc = "fetch_return" -> 1 + StepsAfterPeriod
      [] pc = "output" -> 1
      [] pc = "done" -> 0

\* the run, or the chunker run on its own, is over
Terminated == pc = "done" \/ (pc = "chunker" /\ cpc = "returned")

\* before its end the run always has a step to take (at "start" the step is
\* MainStart, which has no other condition)
NeverStuck ==
    /\ pc = "period_loop" => ENABLED PeriodBegin
    /\ pc = "attempt" => ENABLED Attempt
    /\ pc = "batch_end" => ENABLED BatchEnd
    /\ pc = "fetch_return" => ENABLED FetchReturn
    /\ pc = "output" => ENABLED Output
    /\ (pc = "chunker" /\ cpc = "begin") => ENABLED CalcBegin
    /\ (pc = "chunker" /\ cpc = "loop") => (ENABLED CalcIterate \/ ENABLED CalcReturn)
    /\ pc \in {"start", "period_loop", "attempt", "batch_end", "fetch_return",
               "output", "done", "chunker"}
    /\ pc = "chunker" => cpc \in {"begin", "loop", "returned"}

\* C30: the run terminates whatever the API answers and whatever is raised:
\* every step of the chunker loop, of the retry loop, of the batch loop and of
\* the period loop lowers a natural-number bound on the steps left (so no run
\* takes infinitely many steps), the run is never stuck before its end, each
\* period of the chunker starts strictly after the previous one, a batch never
\* makes more than MAX_RETRIES attempts, and no batch offset and no period
\* number is taken twice
C30_Terminates ==
    /\ [](StepsLeft \in Nat)
    /\ [][StepsLeft' < StepsLeft]_vars
    /\ [](/\ pc = "attempt" => attempt < MAX_RETRIES
          /\ Len(batch_log) <= MAX_RETRIES)
    /\ [][/\ (pc \in {"attempt", "batch_end"} /\ pc' \in {"attempt", "batch_end"}) =>
                (i' >= i /\ period_num' = period_num)
          /\ pc = "batch_end" => i' > i
          /\ period_num' >= period_num
          /\ pc' = "period_loop" => period_num' > period_num]_vars
    /\ [][cpc = "loop" /\ cpc' = "loop" =>
             Ordinal(current_start') > Ordinal(current_start)]_vars
    /\ []NeverStuck

\* a three-period run ended after every period was fetched, with failed calls
\* on the way
C30_Witness ==
    /\ pc = "done"
    /\ Len(periods) = 3
    /\ period_num = 4
    /\ faults > 0
    /\ failed_log # {}

====
